---- MODULE Spec2Model ----
(***************************************************************************)
(* Model of glyph/src/font_arc.rs: FontArc, the reference-counted,        *)
(* type-erased Font handle (struct FontArc(Arc<dyn Font>)).                *)
(*                                                                         *)
(* f32 metrics are modelled as integers in font design units.  Every      *)
(* method result is a record [tag, v] so that values, the absent outline  *)
(* and the InvalidFont error are comparable.                               *)
(***************************************************************************)
EXTENDS Integers, FiniteSets, Sequences, TLC

\* ---------------------------------------------------------------- bounds
NumThreads == 2
MaxHandles == 2
MaxInst == 2
MaxFont == 2
MaxGlyph == 1

Threads == 1..NumThreads
HandleIds == 1..MaxHandles
InstIds == 1..MaxInst
FontBytes == 0..MaxFont
GlyphIds == 0..MaxGlyph
Chars == 0..MaxGlyph

\* the bytes of dev/fonts/Exo2-Light.otf, the font of the doc tests
Exo2Light == 1

VARIABLES inst, handles, pc, ev

vars == <<inst, handles, pc, ev>>

\* ---------------------------------------------------------------- values
R(tag, v) == [tag |-> tag, v |-> v]
InvalidFont == R("InvalidFont", 0)
None == R("None", 0)

\* ------------------------------------------- the backends (FontVec, FontRef)
\* The table parser finds the mandatory tables in every byte source but the
\* truncated ones.
ParseOk(d) == d # 0 /\ d % 3 # 0

FontVec_try_from_vec(d) == IF ParseOk(d) THEN R("Ok", d) ELSE InvalidFont

FontRef_try_from_slice(d) == IF ParseOk(d) THEN R("Ok", d) ELSE InvalidFont

Font_glyph_count_n(b) == b.data

Font_ascent(b) == R("f32", 900 + b.data)

Font_descent(b) == R("f32", 0 - (200 + b.data))

Font_line_gap(b) == R("f32", b.data)

Font_glyph_id(b, c) ==
    IF c > 0 /\ c < Font_glyph_count_n(b) THEN R("GlyphId", c) ELSE R("GlyphId", 0)

Font_h_advance(b, id) ==
    IF id < Font_glyph_count_n(b) THEN R("f32", 500 + 10 * id + b.data) ELSE R("f32", 0)

Font_h_side_bearing(b, id) ==
    IF id < Font_glyph_count_n(b) THEN R("f32", 20 + id) ELSE R("f32", 0)

Font_kern(b, first, second) ==
    IF first > 0 /\ first = second /\ second < Font_glyph_count_n(b)
    THEN R("f32", 0 - b.data) ELSE R("f32", 0)

Font_outline(b, glyph) ==
    IF glyph > 0 /\ glyph < Font_glyph_count_n(b)
    THEN R("Some", 100 * b.data + glyph) ELSE None

Font_glyph_count(b) == R("usize", Font_glyph_count_n(b))

\* ---------------------------------------------------------------- queries
Q(m, a, b) == [m |-> m, a |-> a, b |-> b]
NoQuery == Q("none", 0, 0)

Queries ==
    {Q(m, 0, 0) : m \in {"ascent", "descent", "line_gap", "glyph_count"}}
    \cup {Q("glyph_id", c, 0) : c \in Chars}
    \cup {Q(m, g, 0) : m \in {"h_advance", "h_side_bearing", "outline"}, g \in GlyphIds}
    \cup {Q("kern", g1, g2) : g1 \in GlyphIds, g2 \in GlyphIds}

\* the method of the Font trait that a query names, on a backend
Font_call(b, q) ==
    CASE q.m = "ascent" -> Font_ascent(b)
      [] q.m = "descent" -> Font_descent(b)
      [] q.m = "line_gap" -> Font_line_gap(b)
      [] q.m = "glyph_id" -> Font_glyph_id(b, q.a)
      [] q.m = "h_advance" -> Font_h_advance(b, q.a)
      [] q.m = "h_side_bearing" -> Font_h_side_bearing(b, q.a)
      [] q.m = "kern" -> Font_kern(b, q.a, q.b)
      [] q.m = "outline" -> Font_outline(b, q.a)
      [] q.m = "glyph_count" -> Font_glyph_count(b)

\* ---------------------------------------------------------------- state
FreeInst == [state |-> "free", kind |-> "none", data |-> 0, strong |-> 0, drops |-> 0]
FreeHandle == [live |-> FALSE, ptr |-> 0, raw |-> FALSE, owner |-> 0]
NoPre == [count |-> None, descent |-> None]

\* The last operation: its name, thread, handle, instance, bytes, query, result,
\* text written, and what the backend answered before a conversion.
Event(op, t, h, i, d, q, res, text, pre) ==
    [op |-> op, t |-> t, h |-> h, i |-> i, d |-> d, q |-> q, res |-> res,
     text |-> text, pre |-> pre]

Live == {h \in HandleIds : handles[h].live}
LiveTo(i) == {h \in Live : handles[h].ptr = i}
Idle(t) == pc[t] = 0
SomeIdle == {t \in Threads : Idle(t)} # {}

FreeInstIds == {i \in InstIds : inst[i].state = "free"}
FreeHandleIds == {h \in HandleIds : ~handles[h].live}
Min(S) == CHOOSE x \in S : \A y \in S : x <= y

\* self.0 : the backend behind the handle's pointer
Deref(self) == inst[handles[self].ptr]

Init ==
    /\ inst = [i \in InstIds |-> FreeInst]
    /\ handles = [h \in HandleIds |-> FreeHandle]
    /\ pc = [t \in Threads |-> 0]
    /\ ev = Event("init", 0, 0, 0, 0, NoQuery, None, "", NoPre)

\* ------------------------------------------------ FontArc's Font methods
FontArc_ascent(self) == Font_ascent(Deref(self))

\* mutant: descent routed to the backend's ascent
Mut_FontArc_descent(self) == Font_ascent(Deref(self))

FontArc_descent(self) == Font_descent(Deref(self))

FontArc_line_gap(self) == Font_line_gap(Deref(self))

FontArc_glyph_id(self, c) == Font_glyph_id(Deref(self), c)

FontArc_h_advance(self, id) == Font_h_advance(Deref(self), id)

FontArc_h_side_bearing(self, id) == Font_h_side_bearing(Deref(self), id)

FontArc_kern(self, first, second) == Font_kern(Deref(self), first, second)

\* mutant: the absent outline turned into an error
Mut_FontArc_outline(self, glyph) ==
    IF Font_outline(Deref(self), glyph) = None THEN InvalidFont
    ELSE Font_outline(Deref(self), glyph)

FontArc_outline(self, glyph) == Font_outline(Deref(self), glyph)

FontArc_glyph_count(self) == Font_glyph_count(Deref(self))

\* the method of FontArc that a query names
FontArc_call(self, q) ==
    CASE q.m = "ascent" -> FontArc_ascent(self)
      [] q.m = "descent" -> FontArc_descent(self)
      [] q.m = "line_gap" -> FontArc_line_gap(self)
      [] q.m = "glyph_id" -> FontArc_glyph_id(self, q.a)
      [] q.m = "h_advance" -> FontArc_h_advance(self, q.a)
      [] q.m = "h_side_bearing" -> FontArc_h_side_bearing(self, q.a)
      [] q.m = "kern" -> FontArc_kern(self, q.a, q.b)
      [] q.m = "outline" -> FontArc_outline(self, q.a)
      [] q.m = "glyph_count" -> FontArc_glyph_count(self)

\* mutant: Debug derived, printing the wrapped backend
Mut_FontArc_fmt(self, f) == f \o "FontArc(" \o Deref(self).kind \o ")"

\* impl fmt::Debug: write!(f, "FontArc") appends to the formatter's buffer
FontArc_fmt(self, f) == f \o "FontArc"

\* what a read through a pointer to a destroyed backend may produce
AnyOutcome ==
    {R(tag, v) : tag \in {"f32", "GlyphId", "usize", "Some"}, v \in {0, 1}}
    \cup {None, InvalidFont}

\* ------------------------------------------------------ Arc<dyn Font>
\* Arc::new: a fresh allocation holding the backend, strong count 1
Arc_new(b) == [b EXCEPT !.state = "shared", !.strong = 1]

\* mutant: an increment that is lost
Mut_Arc_fetch_add(strong) == strong

\* Arc::clone: strong.fetch_add(1)
Arc_fetch_add(strong) == strong + 1

\* Arc::drop: strong.fetch_sub(1)
Arc_fetch_sub(strong) == strong - 1

\* mutant: drop_slow run by the last two drops
Mut_Arc_was_last(old) == old <= 2

\* Arc::drop runs drop_slow when fetch_sub returned 1
Arc_was_last(old) == old = 1

NewHandle(t, i, raw) == [live |-> TRUE, ptr |-> i, raw |-> raw, owner |-> t]

\* ---------------------------------------------------------------- actions
\* An owned or borrowed backend is built from bytes and held directly.
MakeBackend(t, kind, d) ==
    /\ Idle(t)
    /\ FreeInstIds # {}
    /\ LET r == IF kind = "FontVec" THEN FontVec_try_from_vec(d)
                ELSE FontRef_try_from_slice(d)
           i == Min(FreeInstIds)
       IN IF r = InvalidFont
          THEN /\ ev' = Event("make_backend", t, 0, 0, d, NoQuery, InvalidFont, kind, NoPre)
               /\ UNCHANGED inst
          ELSE /\ inst' = [inst EXCEPT ![i] = [FreeInst EXCEPT !.state = "owned",
                                                            !.kind = kind, !.data = r.v]]
               /\ ev' = Event("make_backend", t, 0, i, d, NoQuery, R("Ok", i), kind, NoPre)
    /\ UNCHANGED <<handles, pc>>

\* mutant: new wraps a backend parsed from other bytes
Mut_FontArc_new(t, i, op) ==
    /\ Idle(t)
    /\ inst[i].state = "owned"
    /\ FreeHandleIds # {}
    /\ LET h == Min(FreeHandleIds)
           b == inst[i]
       IN /\ inst' = [inst EXCEPT ![i] = Arc_new([b EXCEPT !.data = (b.data % MaxFont) + 1])]
          /\ handles' = [handles EXCEPT ![h] = NewHandle(t, i, FALSE)]
          /\ ev' = Event(op, t, h, i, b.data, NoQuery, R("Ok", h), b.kind,
                         [count |-> Font_glyph_count(b), descent |-> Font_descent(b)])
    /\ UNCHANGED pc

\* FontArc::new(font) : Self(Arc::new(font))
FontArc_new(t, i, op) ==
    /\ Idle(t)
    /\ inst[i].state = "owned"
    /\ FreeHandleIds # {}
    /\ LET h == Min(FreeHandleIds)
           b == inst[i]
       IN /\ inst' = [inst EXCEPT ![i] = Arc_new(b)]
          /\ handles' = [handles EXCEPT ![h] = NewHandle(t, i, FALSE)]
          /\ ev' = Event(op, t, h, i, b.data, NoQuery, R("Ok", h), b.kind,
                         [count |-> Font_glyph_count(b), descent |-> Font_descent(b)])
    /\ UNCHANGED pc

New(t, i) == FontArc_new(t, i, "new")

\* impl From<FontVec> for FontArc
From_FontVec(t, i) ==
    /\ inst[i].kind = "FontVec"
    /\ FontArc_new(t, i, "from_font_vec")

\* impl From<FontRef<'static>> for FontArc
From_FontRef(t, i) ==
    /\ inst[i].kind = "FontRef"
    /\ FontArc_new(t, i, "from_font_ref")

\* Ok(Backend::try_from(data)?.into()) : the backend constructor's error is
\* returned, its backend is converted with From.
TryFrom(t, kind, d, op) ==
    /\ Idle(t)
    /\ FreeInstIds # {}
    /\ FreeHandleIds # {}
    /\ LET r == IF kind = "FontVec" THEN FontVec_try_from_vec(d)
                ELSE FontRef_try_from_slice(d)
           i == Min(FreeInstIds)
           h == Min(FreeHandleIds)
       IN IF r = InvalidFont
          THEN /\ ev' = Event(op, t, 0, 0, d, NoQuery, InvalidFont, kind, NoPre)
               /\ UNCHANGED <<inst, handles>>
          ELSE /\ inst' = [inst EXCEPT ![i] = Arc_new(
                     [FreeInst EXCEPT !.state = "owned", !.kind = kind, !.data = r.v])]
               /\ handles' = [handles EXCEPT ![h] = NewHandle(t, i, FALSE)]
               /\ ev' = Event(op, t, h, i, d, NoQuery, R("Ok", h), kind, NoPre)
    /\ UNCHANGED pc

\* mutant: try_from_vec delegating to the borrowed backend
Mut_FontArc_try_from_vec(t, d) == TryFrom(t, "FontRef", d, "try_from_vec")

\* FontArc::try_from_vec
FontArc_try_from_vec(t, d) == TryFrom(t, "FontVec", d, "try_from_vec")

\* FontArc::try_from_slice
FontArc_try_from_slice(t, d) == TryFrom(t, "FontRef", d, "try_from_slice")

\* A caller builds the Arc<dyn Font> that From<Arc<dyn Font>> takes.
MakeArc(t, i) ==
    /\ Idle(t)
    /\ inst[i].state = "owned"
    /\ FreeHandleIds # {}
    /\ LET h == Min(FreeHandleIds)
       IN /\ inst' = [inst EXCEPT ![i] = Arc_new(inst[i])]
          /\ handles' = [handles EXCEPT ![h] = NewHandle(t, i, TRUE)]
          /\ ev' = Event("make_arc", t, h, i, 0, NoQuery, R("Ok", h), "", NoPre)
    /\ UNCHANGED pc

\* mutant: the pointer wrapped again in a new allocation
Mut_From_Arc(t, h) ==
    /\ Idle(t)
    /\ handles[h].live /\ handles[h].raw /\ handles[h].owner = t
    /\ FreeInstIds # {}
    /\ LET j == Min(FreeInstIds)
       IN /\ inst' = [inst EXCEPT ![j] = Arc_new(Deref(h))]
          /\ handles' = [handles EXCEPT ![h].raw = FALSE, ![h].ptr = j]
          /\ ev' = Event("from_arc", t, h, j, 0, NoQuery, R("Ok", h), "", NoPre)
    /\ UNCHANGED pc

\* impl From<Arc<dyn Font>> for FontArc : Self(font)
From_Arc(t, h) ==
    /\ Idle(t)
    /\ handles[h].live /\ handles[h].raw /\ handles[h].owner = t
    /\ handles' = [handles EXCEPT ![h].raw = FALSE]
    /\ ev' = Event("from_arc", t, h, handles[h].ptr, 0, NoQuery, R("Ok", h), "", NoPre)
    /\ UNCHANGED <<inst, pc>>

\* mutant: the pointer copied without Arc::clone
Mut_Clone(t, h) ==
    /\ Idle(t)
    /\ handles[h].live
    /\ FreeHandleIds # {}
    /\ LET n == Min(FreeHandleIds)
           i == handles[h].ptr
       IN /\ handles' = [handles EXCEPT ![n] = NewHandle(t, i, handles[h].raw)]
          /\ ev' = Event("clone", t, n, i, 0, NoQuery, R("Ok", h), "", NoPre)
    /\ UNCHANGED <<inst, pc>>

\* #[derive(Clone)]: the clone of the field, Arc::clone
Clone(t, h) ==
    /\ Idle(t)
    /\ handles[h].live
    /\ FreeHandleIds # {}
    /\ LET n == Min(FreeHandleIds)
           i == handles[h].ptr
       IN /\ inst' = [inst EXCEPT ![i].strong = Arc_fetch_add(@)]
          /\ handles' = [handles EXCEPT ![n] = NewHandle(t, i, handles[h].raw)]
          /\ ev' = Event("clone", t, n, i, 0, NoQuery, R("Ok", h), "", NoPre)
    /\ UNCHANGED pc

\* The handle goes out of scope: the drop of the field, Arc::drop, up to
\* its fetch_sub.
Drop(t, h) ==
    /\ Idle(t)
    /\ handles[h].live /\ handles[h].owner = t
    /\ LET i == handles[h].ptr
           old == inst[i].strong
       IN /\ inst' = [inst EXCEPT ![i].strong = Arc_fetch_sub(old)]
          /\ pc' = [pc EXCEPT ![t] = IF Arc_was_last(old) THEN i ELSE 0]
          /\ ev' = Event("drop", t, h, i, 0, NoQuery, R("usize", old), "", NoPre)
    /\ handles' = [handles EXCEPT ![h] = FreeHandle]

\* Arc::drop_slow: the backend is destroyed and the allocation released.
DropSlow(t) ==
    /\ pc[t] # 0
    /\ LET i == pc[t]
       IN /\ inst' = [inst EXCEPT ![i] = [FreeInst EXCEPT !.state = "destroyed",
                                                        !.drops = inst[i].drops + 1]]
          /\ ev' = Event("drop_slow", t, 0, i, 0, NoQuery, None, "", NoPre)
    /\ pc' = [pc EXCEPT ![t] = 0]
    /\ UNCHANGED handles

\* What a call can return: the method's result, or anything when the pointer
\* dangles.
Outcomes(h, q) ==
    IF ~handles[h].live THEN {}
    ELSE IF Deref(h).state = "shared" THEN {FontArc_call(h, q)} ELSE AnyOutcome

\* mutant: a call that keeps a clone of the pointer
Mut_Query(h, q) ==
    /\ SomeIdle
    /\ handles[h].live /\ ~handles[h].raw
    /\ \E r \in Outcomes(h, q) :
          ev' = Event("query", 0, h, handles[h].ptr, 0, q, r, "", NoPre)
    /\ inst' = [inst EXCEPT ![handles[h].ptr].strong = Arc_fetch_add(@)]
    /\ UNCHANGED <<handles, pc>>

\* A call of one of the nine Font methods on a FontArc.
Query(h, q) ==
    /\ SomeIdle
    /\ handles[h].live /\ ~handles[h].raw
    /\ \E r \in Outcomes(h, q) :
          ev' = Event("query", 0, h, handles[h].ptr, 0, q, r, "", NoPre)
    /\ UNCHANGED <<inst, handles, pc>>

\* format!("{:?}", font_arc)
Fmt(h) ==
    /\ SomeIdle
    /\ handles[h].live /\ ~handles[h].raw
    /\ ev' = Event("fmt", 0, h, handles[h].ptr, 0, NoQuery, None, FontArc_fmt(h, ""), NoPre)
    /\ UNCHANGED <<inst, handles, pc>>

Kinds == {"FontVec", "FontRef"}
Main == Min(Threads)

\* ------------------------------------------------------- specifications
\* One thread: every way to make a handle, clone, drop, Debug.
Next ==
    \/ \E k \in Kinds, d \in FontBytes : MakeBackend(Main, k, d)
    \/ \E i \in InstIds : New(Main, i)
    \/ \E i \in InstIds : From_FontVec(Main, i)
    \/ \E i \in InstIds : From_FontRef(Main, i)
    \/ \E d \in FontBytes : FontArc_try_from_vec(Main, d)
    \/ \E d \in FontBytes : FontArc_try_from_slice(Main, d)
    \/ \E i \in InstIds : MakeArc(Main, i)
    \/ \E h \in HandleIds : From_Arc(Main, h)
    \/ \E h \in HandleIds : Clone(Main, h)
    \/ \E h \in HandleIds : Drop(Main, h)
    \/ DropSlow(Main)
    \/ \E h \in HandleIds : Fmt(h)

Spec == Init /\ [][Next]_vars

\* One thread: handles made from bytes, cloned, dropped and queried.
NextQuery ==
    \/ \E d \in FontBytes : FontArc_try_from_vec(Main, d)
    \/ \E d \in FontBytes : FontArc_try_from_slice(Main, d)
    \/ \E h \in HandleIds : Clone(Main, h)
    \/ \E h \in HandleIds : Drop(Main, h)
    \/ DropSlow(Main)
    \/ \E h \in HandleIds, q \in Queries : Query(h, q)

SpecQuery == Init /\ [][NextQuery]_vars

\* One thread: every constructor and conversion, then queries.
NextErr ==
    \/ \E k \in Kinds, d \in FontBytes : MakeBackend(Main, k, d)
    \/ \E i \in InstIds : New(Main, i)
    \/ \E i \in InstIds : From_FontVec(Main, i)
    \/ \E i \in InstIds : From_FontRef(Main, i)
    \/ \E d \in FontBytes : FontArc_try_from_vec(Main, d)
    \/ \E d \in FontBytes : FontArc_try_from_slice(Main, d)
    \/ \E i \in InstIds : MakeArc(Main, i)
    \/ \E h \in HandleIds : From_Arc(Main, h)
    \/ \E h \in HandleIds, q \in Queries : Query(h, q)

SpecErr == Init /\ [][NextErr]_vars

\* Several threads make, clone and drop handles.
NextThreads ==
    \/ \E t \in Threads, d \in FontBytes : FontArc_try_from_vec(t, d)
    \/ \E t \in Threads, h \in HandleIds : Clone(t, h)
    \/ \E t \in Threads, h \in HandleIds : Drop(t, h)
    \/ \E t \in Threads : DropSlow(t)

SpecThreads == Init /\ [][NextThreads]_vars

\* ---------------------------------------------------------------- claims
FontArcs == {h \in Live : ~handles[h].raw}
Alive(i) == inst[i].state = "shared"
Answers(h) == [q \in Queries |-> FontArc_call(h, q)]

\* C1: a Font method called on a FontArc returns exactly what the same-named
\* method of the wrapped backend returns for the same arguments, sentinel
\* results included.
C1_Forwards ==
    ev.op = "query" => ev.res = Font_call([kind |-> inst[ev.i].kind, data |-> inst[ev.i].data], ev.q)

C1_Witness ==
    /\ ev.op = "query" /\ ev.q.m = "outline" /\ ev.res = None
    /\ ev.h \in FontArcs /\ Alive(ev.i)

\* C2: a clone answers every query as the handle it was cloned from did, and
\* after a drop every handle that is still live points to a live backend and
\* answers every query as before.
C2_CloneEquivalent ==
    [][/\ ev'.op = "clone" =>
            \A n \in HandleIds, h \in HandleIds, i \in InstIds :
                n = ev'.h /\ h = ev'.res.v /\ i = ev'.i =>
                    /\ Alive(i)'
                    /\ Answers(n)' = Answers(h)
                    /\ Answers(h)' = Answers(h)
       /\ ev'.op \in {"drop", "drop_slow"} =>
            \A h \in HandleIds, i \in InstIds :
                handles'[h].live /\ handles'[h].ptr = i =>
                    Alive(i)' /\ Answers(h)' = Answers(h)]_vars

C2_Witness ==
    /\ ev.op = "drop" /\ ev.res.v = 2
    /\ \E h \in FontArcs : handles[h].ptr = ev.i /\ FontArc_outline(h, 1) # None

Backend(i) == [kind |-> inst[i].kind, data |-> inst[i].data]

\* C3, as stated: the reference count of a backend that has a handle is the
\* number of live handles (FontArc values) to it.
C3_CountIsHandles ==
    \A i \in InstIds :
        {h \in FontArcs : handles[h].ptr = i} # {} =>
            /\ Alive(i)
            /\ inst[i].strong = Cardinality({h \in FontArcs : handles[h].ptr = i})

\* C3, amended: the reference count of a backend is the number of live
\* handles to it plus the number of live Arc<dyn Font> pointers to it that are
\* held outside a handle; the backend is alive while one of them is live; a
\* clone adds exactly one to the count and makes no backend, a drop removes
\* exactly one, and the backend is destroyed once, by the drop that took the
\* count to zero.
C3_DestroyedWithLastHandle ==
    [][\A i \in InstIds :
        /\ inst'[i].strong = Cardinality(LiveTo(i)')
        /\ LiveTo(i)' # {} => Alive(i)'
        /\ inst'[i].drops <= 1
        /\ ev'.op = "clone" /\ ev'.i = i =>
              /\ inst'[i].strong = inst[i].strong + 1
              /\ \A j \in InstIds : inst'[j].state = inst[j].state
        /\ ev'.op = "drop" /\ ev'.i = i =>
              /\ inst'[i].strong = inst[i].strong - 1
              /\ inst'[i].state = inst[i].state
              /\ (pc'[ev'.t] = i) = (inst'[i].strong = 0)
        /\ inst'[i].state = "destroyed" /\ inst[i].state # "destroyed" =>
              /\ ev'.op = "drop_slow" /\ pc[ev'.t] = i
              /\ inst[i].state = "shared" /\ inst[i].strong = 0 /\ LiveTo(i) = {}
        /\ Alive(i)' /\ inst'[i].strong = 0 => \E t \in Threads : pc'[t] = i]_vars

C3_Witness ==
    /\ ev.op = "drop_slow" /\ inst[ev.i].state = "destroyed"
    /\ \E j \in InstIds : Alive(j) /\ inst[j].strong = 1

\* C4: the handle a backend is converted into with From answers glyph_count
\* and descent as the backend did before the conversion (-201 for
\* Exo2-Light), and wraps that same backend, not a re-parsed or other one.
C4_ConversionKeepsBackend ==
    ev.op \in {"from_font_vec", "from_font_ref"} =>
        /\ ev.h \in FontArcs /\ Alive(ev.i) /\ handles[ev.h].ptr = ev.i
        /\ FontArc_glyph_count(ev.h) = ev.pre.count
        /\ FontArc_descent(ev.h) = ev.pre.descent
        /\ Backend(ev.i) = [kind |-> ev.text, data |-> ev.d]
        /\ ev.d = Exo2Light => FontArc_descent(ev.h) = R("f32", 0 - 201)

C4_Witness ==
    /\ ev.op = "from_font_vec" /\ ev.d = Exo2Light
    /\ FontArc_descent(ev.h) = R("f32", 0 - 201)
    /\ FontArc_glyph_count(ev.h) = ev.pre.count

\* C5: FontArc::try_from_vec (try_from_slice) returns Err(InvalidFont)
\* exactly when FontVec::try_from_vec (FontRef::try_from_slice) does; then no
\* handle and no allocation is made; otherwise the handle returned wraps the
\* backend that constructor made.
C5_DelegatedConstruction ==
    [][\A d \in FontBytes :
        /\ ev'.op = "try_from_vec" /\ ev'.d = d =>
              /\ (ev'.res = InvalidFont) = (FontVec_try_from_vec(d) = InvalidFont)
              /\ ev'.res = InvalidFont => UNCHANGED <<inst, handles>>
              /\ ev'.res # InvalidFont =>
                    /\ ev'.res = R("Ok", ev'.h)
                    /\ ev'.h \notin Live /\ handles'[ev'.h].live
                    /\ ev'.i \in FreeInstIds /\ handles'[ev'.h].ptr = ev'.i
                    /\ inst'[ev'.i] = [FreeInst EXCEPT !.state = "shared", !.strong = 1,
                          !.kind = "FontVec", !.data = FontVec_try_from_vec(d).v]
        /\ ev'.op = "try_from_slice" /\ ev'.d = d =>
              /\ (ev'.res = InvalidFont) = (FontRef_try_from_slice(d) = InvalidFont)
              /\ ev'.res = InvalidFont => UNCHANGED <<inst, handles>>
              /\ ev'.res # InvalidFont =>
                    /\ ev'.res = R("Ok", ev'.h)
                    /\ ev'.h \notin Live /\ handles'[ev'.h].live
                    /\ ev'.i \in FreeInstIds /\ handles'[ev'.h].ptr = ev'.i
                    /\ inst'[ev'.i] = [FreeInst EXCEPT !.state = "shared", !.strong = 1,
                          !.kind = "FontRef", !.data = FontRef_try_from_slice(d).v]]_vars

C5_Witness ==
    /\ ev.op = "try_from_slice" /\ ev.res = InvalidFont
    /\ \E h \in FontArcs : Deref(h).kind = "FontVec"

FailingOps == {"try_from_vec", "try_from_slice"}
InfallibleOps == {"new", "from_font_vec", "from_font_ref", "from_arc"}

\* C6: no Font method called on a handle returns InvalidFont; of FontArc's
\* operations only try_from_vec and try_from_slice return it; new and the
\* From conversions always return a handle.
C6_InvalidFontOnlyAtConstruction ==
    /\ ev.op = "query" => ev.res # InvalidFont
    /\ ev.op \in InfallibleOps => ev.res = R("Ok", ev.h) /\ ev.h \in FontArcs
    /\ ev.res = InvalidFont => ev.op \in FailingOps \cup {"make_backend"}

C6_Witness ==
    /\ ev.op = "query" /\ ev.res = None
    /\ \E i \in InstIds : inst[i].state = "free"
    /\ Deref(ev.h).kind = "FontRef"

\* C7: with threads cloning and dropping handles to one backend in any
\* interleaving, every step changes the count by the change in the number of
\* live handles, the backend is not destroyed while a thread holds a live
\* handle to it, and it is destroyed by one thread, once, when no handle is
\* left.
C7_ConcurrentCloneDrop ==
    [][\A i \in InstIds :
        /\ inst'[i].strong - inst[i].strong
              = Cardinality(LiveTo(i)') - Cardinality(LiveTo(i))
        /\ inst'[i].strong = Cardinality(LiveTo(i)')
        /\ LiveTo(i)' # {} => Alive(i)'
        /\ inst'[i].drops <= 1
        /\ Cardinality({t \in Threads : pc'[t] = i}) <= 1
        /\ Alive(i)' /\ LiveTo(i)' = {} => \E t \in Threads : pc'[t] = i
        /\ inst'[i].state = "destroyed" /\ inst[i].state # "destroyed" =>
              LiveTo(i) = {} /\ pc[ev'.t] = i]_vars

C7_Witness ==
    /\ ev.op = "drop" /\ ev.res.v = 2
    /\ \E h \in Live : handles[h].ptr = ev.i /\ handles[h].owner # ev.t
    /\ \E t \in Threads : t # ev.t /\ Idle(t)

\* C8: a call of a Font method on a handle leaves the backends, the handles
\* and the reference counts as they were and returns the method's value in
\* the state before the call; every other step (a clone, a drop of another
\* handle, a construction) leaves the value of every call on every handle
\* that stays live as it was.
C8_QueriesArePure ==
    [][IF ev'.op = "query"
       THEN /\ UNCHANGED <<inst, handles, pc>>
            /\ ev'.res = FontArc_call(ev'.h, ev'.q)
       ELSE \A h \in FontArcs : handles'[h].live => Answers(h)' = Answers(h)]_vars

C8_Witness ==
    /\ ev.op = "query" /\ ev.q.m = "kern" /\ ev.res # R("f32", 0)
    /\ Cardinality(LiveTo(ev.i)) = 2

\* C9: Debug writes the text "FontArc" for every handle, whatever backend
\* kind and bytes it wraps.
C9_DebugIsOpaque ==
    /\ ev.op = "fmt" => ev.text = "FontArc"
    /\ \A h1 \in FontArcs, h2 \in FontArcs : FontArc_fmt(h1, "") = FontArc_fmt(h2, "")

C9_Witness ==
    /\ ev.op = "fmt" /\ ev.text = "FontArc"
    /\ \E h \in FontArcs : Deref(h).kind # Deref(ev.h).kind /\ Deref(h).data # Deref(ev.h).data

\* C10: From<Arc<dyn Font>> makes the pointer the handle: the backend, its
\* allocation and its count are as before, the handle points where the
\* pointer did, and the other holders of the pointer are untouched and keep
\* the backend alive.
C10_AdoptsWithoutRewrap ==
    [][ev'.op = "from_arc" =>
        \A h \in HandleIds, i \in InstIds :
            h = ev'.h /\ i = ev'.i =>
                /\ inst' = inst
                /\ handles[h].live /\ handles[h].raw
                /\ handles' = [handles EXCEPT ![h].raw = FALSE]
                /\ i = handles[h].ptr /\ Alive(i)'
                /\ inst'[i].strong = Cardinality(LiveTo(i)')]_vars

C10_Witness ==
    /\ ev.op = "from_arc" /\ inst[ev.i].strong = 2
    /\ \E h \in Live : h # ev.h /\ handles[h].ptr = ev.i /\ handles[h].raw

====
